---- MODULE Spec2Model ----
(***************************************************************************)
(* A model of the Perplexica client (perplexica_mcp_server/client.py) and  *)
(* of the pydantic value objects it exchanges (models.py).                 *)
(*                                                                         *)
(* One PerplexicaClient, built over one PerplexicaConfig, serves one call  *)
(* at a time: search, search_stream, get_models or health_check.  A call   *)
(* is cut at its await points: the part of the coroutine that runs up to   *)
(* the HTTP request, and the part that runs on what the network answers.   *)
(* The remote service and the connection are the environment: they pick    *)
(* the status, the body, the lines of a stream and the moment a            *)
(* connection breaks.                                                      *)
(***************************************************************************)
EXTENDS Integers, Sequences, FiniteSets, TLC

VARIABLES
    config,     \* the PerplexicaConfig the client holds (client.py:15)
    kwargs,     \* the keyword arguments the caller built its SearchRequest from
    request,    \* the caller's SearchRequest object, Absent before it is built
    op,         \* the method of the call in progress or just ended
    pc,         \* "idle", "awaiting" (request sent), "streaming", "done"
    sent,       \* the HTTP requests the call has issued, in order
    response,   \* what the network answered to the last request
    received,   \* the lines aiter_lines has delivered so far
    yielded,    \* the StreamMessages the generator has yielded so far
    connection, \* the streamed body: "none", "open", "closed" (by the server), "broken"
    previous,   \* the request as the last search or search_stream left it, Absent if none
    tool,       \* the tool of server.py that runs, with its arguments, NoTool if none
    toolpc,     \* "none", "entered" (inside async with), "returned", "raised"
    tool_result, \* what the tool returned, or the exception that left it
    closed,     \* whether aclose() has been called on the client's AsyncClient
    tasks,      \* concurrent tasks on one client: the call each runs and where it is
    inflight,   \* the exchanges the AsyncClient has in flight, oldest first
    outcome     \* how the call ended: a return value or a raised exception

\* The state of the tool layer.
toolVars == <<tool, toolpc, tool_result, closed>>

\* The state of the concurrent tasks that share one client.
taskVars == <<tasks, inflight>>

vars ==
    <<config, kwargs, request, op, pc, sent, response, received, yielded, connection,
      previous, outcome, toolVars, taskVars>>

----------------------------------------------------------------------------
(* Python values *)

\* Python's None, for the fields that hold a string.
None == "None"

\* Python's None, for the fields that hold an object (a model selection, a
\* request): the object with no attributes.
Absent == << >>

\* bool(v) of an Optional[str]: None and the empty string are falsy.
Falsy(v) == v = None \/ v = ""

\* dict.get(key): the value, or None when the key is missing.
Get(d, k) == IF k \in DOMAIN d THEN d[k] ELSE None

\* d[key] = value on a dict.
SetItem(d, key, value) ==
    [k \in DOMAIN d \cup {key} |-> IF k = key THEN value ELSE d[k]]

----------------------------------------------------------------------------
(* Bounds *)

\* The number of lines a streamed body delivers before the model stops it.
MaxLines == 2

\* The number of concurrent tasks that share one client instance.
NumTasks == 2

----------------------------------------------------------------------------
(* models.py *)

\* ChatModel(provider=..., model=..., name=...): the custom endpoint fields
\* keep their default, None.
ChatModel(provider, model, name) ==
    [provider |-> provider, model |-> model, name |-> name,
     customOpenAIBaseURL |-> None, customOpenAIKey |-> None]

\* EmbeddingModel(provider=..., model=..., name=...).
EmbeddingModel(provider, model, name) ==
    [provider |-> provider, model |-> model, name |-> name]

OptimizationModes == {"speed", "balanced", "quality"}

\* The fields of SearchRequest that hold a nested model.
ModelFields == {"chatModel", "embeddingModel"}

\* The default of every SearchRequest field that has one (focusMode and query
\* are required).
SearchRequestDefaults ==
    [chatModel |-> Absent, embeddingModel |-> Absent,
     optimizationMode |-> "balanced", history |-> None,
     systemInstructions |-> None, stream |-> FALSE]

\* SearchRequest(**kw): a keyword that is given sets its field, a keyword left
\* out leaves the field at its default.
SearchRequest(kw) ==
    [f \in DOMAIN SearchRequestDefaults \cup DOMAIN kw |->
        IF f \in DOMAIN kw THEN kw[f] ELSE SearchRequestDefaults[f]]

\* Whether a field of a SearchRequest holds None.
IsNone(req, f) ==
    IF f \in ModelFields THEN req[f] = Absent
    ELSE IF f = "stream" THEN FALSE
    ELSE req[f] = None

\* model_dump(exclude_none=True) of a ChatModel or EmbeddingModel.
DumpModel(m) == [k \in {f \in DOMAIN m : m[f] # None} |-> m[k]]

\* SearchRequest.model_dump(exclude_none=True): nested models are dumped too.
ModelDump(req) ==
    [k \in {f \in DOMAIN req : ~IsNone(req, f)} |->
        IF k \in ModelFields THEN DumpModel(req[k]) ELSE req[k]]

\* The tags a StreamMessage may carry.
StreamTags == {"init", "sources", "response", "done", "error"}

\* PerplexicaConfig.timeout, in seconds.
DefaultTimeout == 30

\* PerplexicaConfig(...): base_url and default_output_format play no part in
\* the client's exchanges and keep their defaults.
PerplexicaConfig(chat, embedding, mode) ==
    [timeout |-> DefaultTimeout,
     default_chat_model |-> chat,
     default_embedding_model |-> embedding,
     default_optimization_mode |-> mode]

----------------------------------------------------------------------------
(* JSON text and json.loads *)

JString(s) == [t |-> "string", s |-> s]
JNumber(n) == [t |-> "number", n |-> n]
JArray(items) == [t |-> "array", items |-> items]
JObject(members) == [t |-> "object", members |-> members]
JNull == [t |-> "null"]
JSONDecodeError == [t |-> "JSONDecodeError"]

\* The texts the remote service sends, as bodies or as lines of a stream.
TextParis == "{\"message\": \"Paris\", \"sources\": []}"
TextInternalError == "internal error"
TextWrongShape == "{\"foo\": 1}"
TextArray == "[1]"
TextInit == "{\"type\": \"init\", \"data\": null}"
TextResponse == "{\"type\": \"response\", \"data\": \"hi\"}"
TextDone == "{\"type\": \"done\", \"data\": null}"
TextNotJson == "not-json"
TextBlank == ""
TextSpaces == "  "

\* json.loads(text): the value the text denotes, or JSONDecodeError.
JsonLoads(text) ==
    CASE text = TextParis ->
            JObject([message |-> JString("Paris"), sources |-> JArray(<< >>)])
      [] text = TextWrongShape -> JObject([foo |-> JNumber(1)])
      [] text = TextArray -> JArray(<<JNumber(1)>>)
      [] text = TextInit -> JObject([type |-> JString("init"), data |-> JNull])
      [] text = TextResponse ->
            JObject([type |-> JString("response"), data |-> JString("hi")])
      [] text = TextDone -> JObject([type |-> JString("done"), data |-> JNull])
      [] OTHER -> JSONDecodeError

\* str.strip(): a line of blanks strips to the empty string.
Strip(line) == IF line \in {TextBlank, TextSpaces} THEN "" ELSE line

----------------------------------------------------------------------------
(* How a call ends *)

NoOutcome == [kind |-> "none"]

\* return value
Return(value) == [kind |-> "return", value |-> value]

\* An exception leaving the call: its class, the fixed part of its message and
\* the status code and body text formatted into the message (0 and None when
\* the message has none).
Raise(exc, msg, status, body) ==
    [kind |-> "raise", exc |-> exc, msg |-> msg, status |-> status, body |-> body]

\* An async generator that runs off its end: the consumer's loop ends.
StopAsyncIteration == [kind |-> "end"]

----------------------------------------------------------------------------
(* Building the pydantic objects from parsed JSON *)

\* Source(**item): pageContent a string, metadata an object.
IsSource(item) ==
    /\ item.t = "object"
    /\ {"pageContent", "metadata"} \subseteq DOMAIN item.members
    /\ item.members.pageContent.t = "string"
    /\ item.members.metadata.t = "object"

\* Whether the members of a JSON object validate as a SearchResponse.
IsSearchResponse(members) ==
    /\ {"message", "sources"} \subseteq DOMAIN members
    /\ members.message.t = "string"
    /\ members.sources.t = "array"
    /\ \A i \in DOMAIN members.sources.items : IsSource(members.sources.items[i])

\* SearchResponse(**data): the object, or the exception the construction
\* raises: TypeError when data is no mapping, pydantic's ValidationError when
\* a field is missing or of the wrong type.
SearchResponse(data) ==
    IF data.t # "object" THEN Raise("TypeError", None, 0, None)
    ELSE IF IsSearchResponse(data.members)
    THEN Return([message |-> data.members.message.s,
                 sources |-> data.members.sources.items])
    ELSE Raise("ValidationError", None, 0, None)

\* Whether the members of a JSON object validate as a StreamMessage.
IsStreamMessage(members) ==
    /\ {"type", "data"} \subseteq DOMAIN members
    /\ members.type.t = "string"
    /\ members.type.s \in StreamTags

\* StreamMessage(**data), as SearchResponse above.
StreamMessage(data) ==
    IF data.t # "object" THEN Raise("TypeError", None, 0, None)
    ELSE IF IsStreamMessage(data.members)
    THEN Return([type |-> data.members.type.s, data |-> data.members.data])
    ELSE Raise("ValidationError", None, 0, None)

----------------------------------------------------------------------------
(* httpx *)

\* What the network answers to a request: no response at all (httpx raises a
\* RequestError: refused, timed out), or a response.  `read` tells whether the
\* body has been loaded: post() and get() load it, stream() does not.
RequestError == [kind |-> "RequestError"]
Response(status, body, read) ==
    [kind |-> "response", status |-> status, body |-> body, read |-> read]
NoResponse == [kind |-> "none"]

\* Response.is_success, the test of raise_for_status().
IsSuccess(status) == status \in 200..299

\* An HTTP request as the client issues it.
HttpRequest(method, url, json, timeout) ==
    [method |-> method, url |-> url, json |-> json, timeout |-> timeout]

----------------------------------------------------------------------------
(* client.py: the pure steps *)

\* ApplyDefaults with the test for None left out of the two model fields: the
\* config's default model replaces the caller's.
ApplyDefaults_Overwrite(req, cfg) ==
    [req EXCEPT
        !.chatModel =
            IF cfg.default_chat_model # Absent THEN cfg.default_chat_model ELSE @,
        !.embeddingModel =
            IF cfg.default_embedding_model # Absent
            THEN cfg.default_embedding_model ELSE @,
        !.optimizationMode =
            IF @ = None THEN cfg.default_optimization_mode ELSE @]

\* ApplyDefaults that resolves nothing: the request is left as the caller
\* passed it.
ApplyDefaults_Skip(req, cfg) == req

\* "Apply defaults from config", the head of search and of search_stream: a
\* field that holds None takes the config's default; a pydantic object is
\* truthy whenever it is not None.
ApplyDefaults(req, cfg) ==
    [req EXCEPT
        !.chatModel =
            IF @ = Absent /\ cfg.default_chat_model # Absent
            THEN cfg.default_chat_model ELSE @,
        !.embeddingModel =
            IF @ = Absent /\ cfg.default_embedding_model # Absent
            THEN cfg.default_embedding_model ELSE @,
        !.optimizationMode =
            IF @ = None THEN cfg.default_optimization_mode ELSE @]

\* AliasModel without the test of the model identifier: the name is copied
\* over a model identifier that is set.
AliasModel_Always(m) ==
    IF "name" \in DOMAIN m THEN SetItem(m, "model", m["name"]) ELSE m

\* AliasModel written as an exchange of the two identifiers: the name goes to
\* model and what model held goes to name.
AliasModel_Swap(m) ==
    IF "name" \in DOMAIN m
    THEN SetItem(SetItem(m, "model", m["name"]), "name",
                 IF "model" \in DOMAIN m THEN m["model"] ELSE "")
    ELSE m

\* if "name" in m and not m.get("model"): m["model"] = m["name"]
AliasModel(m) ==
    IF "name" \in DOMAIN m /\ Falsy(Get(m, "model"))
    THEN SetItem(m, "model", m["name"])
    ELSE m

\* The alias step of search on a dumped request: AliasModel on each model
\* that is in the dict and is a non-empty dict.
AliasPayload(request_data) ==
    [k \in DOMAIN request_data |->
        IF k \in ModelFields /\ DOMAIN request_data[k] # {}
        THEN AliasModel(request_data[k])
        ELSE request_data[k]]

\* The request_data that search posts: the dump of the request, with the
\* alias step applied.
SearchPayload(req) == AliasPayload(ModelDump(req))

\* The alias step written on the model objects of the request in place of
\* their dumps: a default model of the config that the request holds gets its
\* model identifier set.
ConfigAfterSearch_InPlace(cfg, req) ==
    LET InPlace(m) ==
            IF m # Absent /\ m.name # None /\ Falsy(m.model)
            THEN [m EXCEPT !.model = m.name] ELSE m
    IN [cfg EXCEPT
         !.default_chat_model =
             IF req.chatModel = @ THEN InPlace(@) ELSE @,
         !.default_embedding_model =
             IF req.embeddingModel = @ THEN InPlace(@) ELSE @]

\* What search leaves of the config it read.  Once a default is substituted,
\* request.chatModel and config.default_chat_model are one object; the alias
\* step writes the dicts model_dump() built, never that object, and search
\* assigns no attribute of the config.
ConfigAfterSearch(cfg, req) == cfg

\* The json that search_stream posts: {**request.model_dump(...), "stream": True}
StreamPayload(req) == SetItem(ModelDump(req), "stream", TRUE)

\* The three messages the except clauses format.
ApiErrorMessage == "Perplexica API error"
NetworkErrorMessage == "Network error connecting to Perplexica"
InvalidJsonMessage == "Invalid JSON response from Perplexica"

\* ApiError with the body left out of the message.
ApiError_NoBody(resp) ==
    IF resp.read
    THEN Raise("Exception", ApiErrorMessage, resp.status, None)
    ELSE Raise("ResponseNotRead", None, 0, None)

\* except httpx.HTTPStatusError: the message formats e.response.status_code
\* and e.response.text.  Response.text needs the body loaded: on a response
\* opened with stream() and never read, httpx raises ResponseNotRead (a
\* RuntimeError) from the property, and that exception leaves the handler
\* in place of the one being built.
ApiError(resp) ==
    IF resp.read
    THEN Raise("Exception", ApiErrorMessage, resp.status, resp.body)
    ELSE Raise("ResponseNotRead", None, 0, None)

\* except httpx.RequestError
NetworkError == Raise("Exception", NetworkErrorMessage, 0, None)

\* except json.JSONDecodeError
InvalidJsonError == Raise("Exception", InvalidJsonMessage, 0, None)

\* search, from the answer to its POST to its end: raise_for_status(),
\* response.json(), SearchResponse(**data) and the three except clauses.  An
\* exception none of them names leaves search as it is.
SearchResult(ans) ==
    IF ans.kind = "RequestError" THEN NetworkError
    ELSE IF ~IsSuccess(ans.status) THEN ApiError(ans)
    ELSE LET data == JsonLoads(ans.body) IN
         IF data = JSONDecodeError THEN InvalidJsonError
         ELSE SearchResponse(data)

\* get_models, from the answer to its GET to its end; no clause catches
\* json.JSONDecodeError.
GetModelsResult(ans) ==
    IF ans.kind = "RequestError" THEN NetworkError
    ELSE IF ~IsSuccess(ans.status) THEN ApiError(ans)
    ELSE LET data == JsonLoads(ans.body) IN
         IF data = JSONDecodeError
         THEN Raise("JSONDecodeError", None, 0, None)
         ELSE Return(data)

\* The timeout health_check passes to get(), in seconds.
HealthTimeout == 5

\* health_check without its try/except: the RequestError leaves the call.
HealthCheckResult_NoCatch(ans) ==
    IF ans.kind = "RequestError" THEN Raise("RequestError", None, 0, None)
    ELSE Return(ans.status = 200)

\* health_check with the test of raise_for_status(): any 2xx status is healthy.
HealthCheckResult_Any2xx(ans) ==
    IF ans.kind = "RequestError" THEN Return(FALSE)
    ELSE Return(IsSuccess(ans.status))

\* health_check, from the answer to its GET to its end.
HealthCheckResult(ans) ==
    IF ans.kind = "RequestError" THEN Return(FALSE)
    ELSE Return(ans.status = 200)

\* StreamDropResult with the RequestError swallowed: the generator ends as
\* on a close.
StreamDropResult_Silent == StopAsyncIteration

\* search_stream, when aiter_lines() raises a RequestError while the body is
\* read: the except clause around the whole exchange catches it.
StreamDropResult == NetworkError

\* One turn of the loop of search_stream on a line: what the generator does
\* with it.  "skip" goes on to the next line, "yield" hands a message to the
\* consumer, "raise" leaves the generator with an exception no clause names.
LineStep(line) ==
    IF Strip(line) = "" THEN [do |-> "skip"]
    ELSE LET data == JsonLoads(line) IN
         IF data = JSONDecodeError THEN [do |-> "skip"]
         ELSE LET built == StreamMessage(data) IN
              IF built.kind = "return"
              THEN [do |-> "yield", message |-> built.value]
              ELSE [do |-> "raise", exception |-> built]

----------------------------------------------------------------------------
(* The inputs: what callers pass and what the network answers *)

\* The chat models a caller selects: the model identifier unset, empty or
\* set, with and without the alternate name.
ChatModels ==
    {ChatModel("custom_openai", m, n) : m \in {None, "", "gpt-4o"}, n \in {None, "gpt-4.1"}}

\* The embedding models a caller selects.
EmbeddingModels ==
    {EmbeddingModel("transformers", m, n) : m \in {None, "bge-m3"}, n \in {None, "bge-small"}}

\* The keywords every SearchRequest is built with.
Required == [focusMode |-> "webSearch", query |-> "capital of France"]

\* The keyword arguments callers build a SearchRequest from: the required
\* two alone; with a chat model (None included), an embedding model, or
\* both; with an optimization mode (None included), a stream flag, or both.
KwargsSpace ==
    {Required}
    \cup {SetItem(Required, "chatModel", c) : c \in ChatModels \cup {Absent}}
    \cup {SetItem(Required, "embeddingModel", e) : e \in EmbeddingModels}
    \cup {SetItem(SetItem(Required, "chatModel", c), "embeddingModel", e) :
            c \in ChatModels, e \in {EmbeddingModel("transformers", None, "bge-small")}}
    \cup {SetItem(Required, "optimizationMode", m) : m \in OptimizationModes \cup {None}}
    \cup {SetItem(Required, "stream", b) : b \in BOOLEAN}
    \cup {SetItem(SetItem(Required, "optimizationMode", m), "stream", TRUE) :
            m \in {None, "quality"}}

\* The configs a process runs with: load_config sets the name of a default
\* model, never its model identifier.
ConfigSpace ==
    {PerplexicaConfig(c, e, m) :
        c \in {Absent, ChatModel("openai", None, "gpt-4o-mini")},
        e \in {Absent, EmbeddingModel("openai", None, "text-embedding-3-large")},
        m \in OptimizationModes}

\* The status codes and bodies of the remote service.
Statuses == {200, 204, 404, 500}
Bodies == {TextParis, TextInternalError, TextWrongShape, TextArray}

\* The answers to a buffered request (post, get): the body is loaded.
Answers ==
    {RequestError} \cup {Response(st, b, TRUE) : st \in Statuses, b \in Bodies}

\* The answers to the request of stream(): the headers only, the body is not
\* loaded.  An error status comes with a short body; the body of a 2xx
\* response is the lines that follow.
StreamAnswers ==
    {RequestError}
    \cup {Response(st, IF IsSuccess(st) THEN None ELSE TextInternalError, FALSE) :
            st \in Statuses}

\* The lines a streamed body is made of.
Lines ==
    {TextBlank, TextSpaces, TextNotJson, TextWrongShape, TextInit, TextResponse, TextDone}

----------------------------------------------------------------------------
(* server.py: the tools *)

NoTool == [name |-> "none"]

\* The tools that run a search, each with its focus mode.
SearchTools ==
    {"search_web", "search_academic", "search_youtube", "search_reddit",
     "writing_assistant"}

FocusOf(name) ==
    CASE name = "search_web" -> "webSearch"
      [] name = "search_academic" -> "academicSearch"
      [] name = "search_youtube" -> "youtubeSearch"
      [] name = "search_reddit" -> "redditSearch"
      [] name = "writing_assistant" -> "writingAssistant"

\* The search tools that take embedding_provider and embedding_model.
EmbeddingTools == {"search_web", "search_academic"}

\* The values of SearchRequest.focusMode.
FocusModes ==
    {"webSearch", "academicSearch", "writingAssistant", "wolframAlphaSearch",
     "youtubeSearch", "redditSearch"}

\* Whether SearchRequest(**kw) validates: the two Literal fields hold one of
\* their values.  Otherwise pydantic raises ValidationError.
SearchRequestValidates(kw) ==
    /\ kw.focusMode \in FocusModes
    /\ "optimizationMode" \in DOMAIN kw =>
        kw.optimizationMode \in OptimizationModes \cup {None}

\* A request building where the provider or the model alone makes the
\* override.
ToolKwargs_EitherSuffices(name, args, cfg) ==
    LET chat ==
            IF ~Falsy(args.chat_provider) \/ ~Falsy(args.chat_model)
            THEN ChatModel(args.chat_provider, None, args.chat_model)
            ELSE cfg.default_chat_model
        embedding ==
            IF ~Falsy(args.embedding_provider) \/ ~Falsy(args.embedding_model)
            THEN EmbeddingModel(args.embedding_provider, None, args.embedding_model)
            ELSE cfg.default_embedding_model
        mode ==
            IF ~Falsy(args.optimization_mode)
            THEN args.optimization_mode ELSE cfg.default_optimization_mode
        base ==
            [chatModel |-> chat, optimizationMode |-> mode,
             focusMode |-> FocusOf(name), query |-> args.query]
    IN IF name \in EmbeddingTools
       THEN SetItem(base, "embeddingModel", embedding)
       ELSE base

\* "Build request using provided params or env defaults": the keywords a
\* search tool passes to SearchRequest.  A model override needs the provider
\* and the model, both truthy; `optimization_mode or default` takes the
\* default for None and for the empty string.
ToolKwargs(name, args, cfg) ==
    LET chat ==
            IF ~Falsy(args.chat_provider) /\ ~Falsy(args.chat_model)
            THEN ChatModel(args.chat_provider, None, args.chat_model)
            ELSE cfg.default_chat_model
        embedding ==
            IF ~Falsy(args.embedding_provider) /\ ~Falsy(args.embedding_model)
            THEN EmbeddingModel(args.embedding_provider, None, args.embedding_model)
            ELSE cfg.default_embedding_model
        mode ==
            IF ~Falsy(args.optimization_mode)
            THEN args.optimization_mode ELSE cfg.default_optimization_mode
        base ==
            [chatModel |-> chat, optimizationMode |-> mode,
             focusMode |-> FocusOf(name), query |-> args.query]
    IN IF name \in EmbeddingTools
       THEN SetItem(base, "embeddingModel", embedding)
       ELSE base

\* str(e) of an exception: its message with what was formatted into it.
ErrorText(exc) == <<exc.msg, exc.status, exc.body>>

\* except Exception with a narrower class: only the exceptions the client
\* builds itself are caught.
Caught_OwnOnly(exc) == exc = "Exception"

\* except Exception as e: every exception class of this model derives from
\* Exception but asyncio.CancelledError, a BaseException.
Caught(exc) == exc # "CancelledError"

\* What a tool makes of an exception raised inside its try: the error payload
\* it returns, or the exception itself when no clause catches it.
ToolFailure(name, exc) ==
    IF Caught(exc.exc)
    THEN IF name = "health_check"
         THEN Return([healthy |-> FALSE, error |-> ErrorText(exc)])
         ELSE Return([error |-> ErrorText(exc)])
    ELSE exc

\* What a tool makes of the end of its client call: the payload it returns
\* for a result (the output format is left out), ToolFailure for an
\* exception.
ToolResult(name, outc) ==
    IF outc.kind = "raise" THEN ToolFailure(name, outc)
    ELSE IF name = "health_check"
    THEN Return([healthy |-> outc.value,
                 message |-> IF outc.value THEN "Perplexica API is accessible"
                             ELSE "Perplexica API is not accessible"])
    ELSE IF name = "get_available_models"
    THEN Return([models |-> outc.value])
    ELSE Return([message |-> outc.value.message, sources |-> outc.value.sources])

\* __aexit__ that closes the client only when no exception passes through it.
ClosedOnExit_CleanOnly(result) == result.kind # "raise"

\* __aexit__: await self.client.aclose(), whatever leaves the block.
ClosedOnExit(result) == TRUE

\* The arguments tools are called with.
ToolArgs(name) ==
    IF name \in SearchTools
    THEN {[query |-> "capital of France", chat_provider |-> cp, chat_model |-> cm,
           embedding_provider |-> ep, embedding_model |-> em, optimization_mode |-> om] :
            cp \in {None, "", "anthropic"},
            cm \in {None, "", "claude-3-sonnet"},
            ep \in IF name \in EmbeddingTools THEN {None, "openai"} ELSE {None},
            em \in IF name \in EmbeddingTools THEN {None, "", "text-embedding-3-small"} ELSE {None},
            om \in {None, "quality", "fast"}}
    ELSE {[query |-> None]}

----------------------------------------------------------------------------
(* Concurrent use of one client *)

Tasks == 1..NumTasks

\* The four calls of PerplexicaClient.
Operations == {"search", "search_stream", "get_models", "health_check"}

IdleTask == [op |-> "none", pc |-> "idle", lines |-> 0]

\* The exchange a call starts on self.client.
Exchange(t, o) ==
    [task |-> t,
     method |-> IF o \in {"search", "search_stream"} THEN "POST" ELSE "GET",
     url |-> IF o \in {"search", "search_stream"} THEN "/api/search" ELSE "/api/models"]

\* The exchanges in flight but those of task t.
Without(exchanges, t) == SelectSeq(exchanges, LAMBDA e : e.task # t)

----------------------------------------------------------------------------
(* The state machine *)

Init ==
    /\ config \in ConfigSpace
    /\ kwargs = Absent
    /\ request = Absent
    /\ op = "none"
    /\ pc = "idle"
    /\ sent = << >>
    /\ response = NoResponse
    /\ received = << >>
    /\ yielded = << >>
    /\ connection = "none"
    /\ previous = Absent
    /\ outcome = NoOutcome
    /\ tool = NoTool
    /\ toolpc = "none"
    /\ tool_result = NoOutcome
    /\ closed = FALSE
    /\ tasks = [t \in Tasks |-> IdleTask]
    /\ inflight = << >>

\* The caller builds its request: request = SearchRequest(**kw).
BuildRequest ==
    /\ pc = "idle"
    /\ request = Absent
    /\ \E kw \in KwargsSpace :
        /\ kwargs' = kw
        /\ request' = SearchRequest(kw)
    /\ UNCHANGED <<config, op, pc, sent, response, received, yielded, outcome, connection, previous, toolVars, taskVars>>

\* search(request), up to the await of post(): the defaults are written into
\* the caller's request, the payload is built and posted.
SearchSend ==
    /\ pc = "idle"
    /\ request # Absent
    /\ LET resolved == ApplyDefaults(request, config) IN
        /\ request' = resolved
        /\ sent' = Append(sent, HttpRequest("POST", "/api/search",
                                            SearchPayload(resolved), config.timeout))
        /\ config' = ConfigAfterSearch(config, resolved)
    /\ op' = "search"
    /\ pc' = "awaiting"
    /\ UNCHANGED <<kwargs, response, received, yielded, outcome, connection, previous, toolVars, taskVars>>

\* SearchRespond with one retry: when no response came, the POST is issued
\* again and the call goes on waiting.
SearchRespond_Retry ==
    /\ pc = "awaiting"
    /\ op = "search"
    /\ \E ans \in Answers :
        /\ response' = ans
        /\ IF ans.kind = "RequestError" /\ Len(sent) < 2
           THEN /\ sent' = Append(sent, sent[1])
                /\ pc' = pc
                /\ outcome' = outcome
           ELSE /\ sent' = sent
                /\ pc' = "done"
                /\ outcome' = SearchResult(ans)
    /\ UNCHANGED <<config, kwargs, request, op, received, yielded, connection, previous, toolVars, taskVars>>

\* search, from the answer on.
SearchRespond ==
    /\ pc = "awaiting"
    /\ op = "search"
    /\ \E ans \in Answers :
        /\ response' = ans
        /\ outcome' = SearchResult(ans)
    /\ pc' = "done"
    /\ UNCHANGED <<config, kwargs, request, op, sent, received, yielded, connection, previous, toolVars, taskVars>>

\* search_stream(request), from the first __anext__ of the consumer up to the
\* await of stream(): the defaults, then the POST.
StreamSend ==
    /\ pc = "idle"
    /\ request # Absent
    /\ LET resolved == ApplyDefaults(request, config) IN
        /\ request' = resolved
        /\ sent' = Append(sent, HttpRequest("POST", "/api/search",
                                            StreamPayload(resolved), config.timeout))
    /\ op' = "search_stream"
    /\ pc' = "awaiting"
    /\ UNCHANGED <<config, kwargs, response, received, yielded, outcome, connection, previous, toolVars, taskVars>>

\* search_stream, on the answer to its POST: no response, a status that
\* raise_for_status() refuses, or a stream to read.
StreamRespond ==
    /\ pc = "awaiting"
    /\ op = "search_stream"
    /\ \E ans \in StreamAnswers :
        /\ response' = ans
        /\ IF ans.kind = "RequestError"
           THEN pc' = "done" /\ outcome' = NetworkError /\ connection' = connection
           ELSE IF ~IsSuccess(ans.status)
           THEN pc' = "done" /\ outcome' = ApiError(ans) /\ connection' = connection
           ELSE pc' = "streaming" /\ outcome' = outcome /\ connection' = "open"
    /\ UNCHANGED <<config, kwargs, request, op, sent, received, yielded, previous, toolVars, taskVars>>

\* search_stream, on one more line from aiter_lines().
StreamLine ==
    /\ pc = "streaming"
    /\ Len(received) < MaxLines
    /\ \E line \in Lines :
        LET step == LineStep(line) IN
        /\ received' = Append(received, line)
        /\ yielded' = IF step.do = "yield" THEN Append(yielded, step.message) ELSE yielded
        /\ IF step.do = "raise"
           THEN pc' = "done" /\ outcome' = step.exception
           ELSE pc' = pc /\ outcome' = outcome
    /\ UNCHANGED <<config, kwargs, request, op, sent, response, connection, previous, toolVars, taskVars>>

\* search_stream, when the server closes the body: aiter_lines() ends, the
\* generator runs off its end.
StreamClose ==
    /\ pc = "streaming"
    /\ pc' = "done"
    /\ connection' = "closed"
    /\ outcome' = StopAsyncIteration
    /\ UNCHANGED <<config, kwargs, request, op, sent, response, received, yielded, previous, toolVars, taskVars>>

\* search_stream, when the connection breaks while the body is read:
\* aiter_lines() raises a RequestError (ReadError, RemoteProtocolError), which
\* the except clause of search_stream turns into its network error.
StreamDrop ==
    /\ pc = "streaming"
    /\ pc' = "done"
    /\ connection' = "broken"
    /\ outcome' = StreamDropResult
    /\ UNCHANGED <<config, kwargs, request, op, sent, response, received, yielded, previous, toolVars, taskVars>>

\* get_models(), up to the await of get().
GetModelsSend ==
    /\ pc = "idle"
    /\ sent' = Append(sent, HttpRequest("GET", "/api/models", Absent, config.timeout))
    /\ op' = "get_models"
    /\ pc' = "awaiting"
    /\ UNCHANGED <<config, kwargs, request, response, received, yielded, outcome, connection, previous, toolVars, taskVars>>

\* get_models, from the answer on.
GetModelsRespond ==
    /\ pc = "awaiting"
    /\ op = "get_models"
    /\ \E ans \in Answers :
        /\ response' = ans
        /\ outcome' = GetModelsResult(ans)
    /\ pc' = "done"
    /\ UNCHANGED <<config, kwargs, request, op, sent, received, yielded, connection, previous, toolVars, taskVars>>

\* health_check(), up to the await of get().
HealthCheckSend ==
    /\ pc = "idle"
    /\ sent' = Append(sent, HttpRequest("GET", "/api/models", Absent, HealthTimeout))
    /\ op' = "health_check"
    /\ pc' = "awaiting"
    /\ UNCHANGED <<config, kwargs, request, response, received, yielded, outcome, connection, previous, toolVars, taskVars>>

\* health_check, from the answer on.
HealthCheckRespond ==
    /\ pc = "awaiting"
    /\ op = "health_check"
    /\ \E ans \in Answers :
        /\ response' = ans
        /\ outcome' = HealthCheckResult(ans)
    /\ pc' = "done"
    /\ UNCHANGED <<config, kwargs, request, op, sent, received, yielded, connection, previous, toolVars, taskVars>>

\* The caller, after a call has ended, goes on to its next call on the same
\* client and with the same request object.
Resume ==
    /\ pc = "done"
    /\ previous' = IF op \in {"search", "search_stream"} THEN request ELSE previous
    /\ op' = "none"
    /\ pc' = "idle"
    /\ sent' = << >>
    /\ response' = NoResponse
    /\ received' = << >>
    /\ yielded' = << >>
    /\ connection' = "none"
    /\ outcome' = NoOutcome
    /\ UNCHANGED <<config, kwargs, request, toolVars, taskVars>>

----------------------------------------------------------------------------
(* The tools as a state machine: a tool creates its client, enters it, runs *)
(* one call of it inside its try and leaves.                                *)

\* A tool is called and runs up to its first await inside the try.  A search
\* tool builds its request: when SearchRequest raises, the except clause
\* returns the error payload and the client is left at once.
ToolEnter ==
    /\ toolpc = "none"
    /\ pc = "idle"
    /\ request = Absent
    /\ \E name \in SearchTools \cup {"get_available_models", "health_check"} :
       \E args \in ToolArgs(name) :
        /\ tool' = [name |-> name, args |-> args]
        /\ IF name \in SearchTools
           THEN LET kw == ToolKwargs(name, args, config) IN
                IF SearchRequestValidates(kw)
                THEN /\ kwargs' = kw
                     /\ request' = SearchRequest(kw)
                     /\ toolpc' = "entered"
                     /\ tool_result' = tool_result
                     /\ closed' = closed
                ELSE LET result ==
                            ToolFailure(name, Raise("ValidationError", None, 0, None))
                     IN /\ UNCHANGED <<kwargs, request>>
                        /\ toolpc' = IF result.kind = "raise" THEN "raised" ELSE "returned"
                        /\ tool_result' = result
                        /\ closed' = ClosedOnExit(result)
           ELSE /\ UNCHANGED <<kwargs, request, tool_result, closed>>
                /\ toolpc' = "entered"
    /\ UNCHANGED <<config, op, pc, sent, response, received, yielded, connection,
                   previous, outcome, taskVars>>

\* The client call of a search tool.
ToolSearchSend ==
    /\ toolpc = "entered"
    /\ tool.name \in SearchTools
    /\ SearchSend

ToolSearchRespond ==
    /\ toolpc = "entered"
    /\ SearchRespond

\* The client call of get_available_models.
ToolGetModelsSend ==
    /\ toolpc = "entered"
    /\ tool.name = "get_available_models"
    /\ GetModelsSend

ToolGetModelsRespond ==
    /\ toolpc = "entered"
    /\ GetModelsRespond

\* The client call of the tool health_check.
ToolHealthCheckSend ==
    /\ toolpc = "entered"
    /\ tool.name = "health_check"
    /\ HealthCheckSend

ToolHealthCheckRespond ==
    /\ toolpc = "entered"
    /\ HealthCheckRespond

\* The task that runs the tool is cancelled while the client awaits its
\* answer: CancelledError is raised at the await, and no except clause of the
\* client names it.
ToolCancel ==
    /\ toolpc = "entered"
    /\ pc = "awaiting"
    /\ pc' = "done"
    /\ outcome' = Raise("CancelledError", None, 0, None)
    /\ UNCHANGED <<config, kwargs, request, op, sent, response, received, yielded,
                   connection, previous, toolVars, taskVars>>

\* The client call has ended: the tool returns its payload from the try or
\* from the except clause, or the exception leaves it; either way the block
\* of async with is left and __aexit__ runs.
ToolExit ==
    /\ toolpc = "entered"
    /\ pc = "done"
    /\ LET result == ToolResult(tool.name, outcome) IN
        /\ tool_result' = result
        /\ toolpc' = IF result.kind = "raise" THEN "raised" ELSE "returned"
        /\ closed' = ClosedOnExit(result)
    /\ UNCHANGED <<config, kwargs, request, op, pc, sent, response, received, yielded,
                   connection, previous, outcome, tool, taskVars>>

NextTools ==
    \/ ToolEnter
    \/ ToolSearchSend
    \/ ToolSearchRespond
    \/ ToolGetModelsSend
    \/ ToolGetModelsRespond
    \/ ToolHealthCheckSend
    \/ ToolHealthCheckRespond
    \/ ToolCancel
    \/ ToolExit

SpecTools == Init /\ [][NextTools]_vars

----------------------------------------------------------------------------
(* Concurrent tasks that call one client instance.  The methods take no    *)
(* lock: each goes straight to self.client.post, .stream or .get.          *)

\* A task starts a call: the method runs to its await and the AsyncClient
\* starts the exchange, whatever else the instance has in flight.
TaskSend(t) ==
    /\ tasks[t].pc = "idle"
    /\ \E o \in Operations :
        /\ tasks' = [tasks EXCEPT ![t] = [op |-> o, pc |-> "awaiting", lines |-> 0]]
        /\ inflight' = Append(inflight, Exchange(t, o))
    /\ UNCHANGED <<config, kwargs, request, op, pc, sent, response, received, yielded,
                   connection, previous, outcome, toolVars>>

\* An answer that ends the call of the task but leaves its exchange with the
\* AsyncClient.
TaskRespond_Leak(t) ==
    /\ tasks[t].pc = "awaiting"
    /\ \E ok \in BOOLEAN :
        IF tasks[t].op = "search_stream" /\ ok
        THEN /\ tasks' = [tasks EXCEPT ![t].pc = "streaming"]
             /\ inflight' = inflight
        ELSE /\ tasks' = [tasks EXCEPT ![t].pc = "done"]
             /\ inflight' = inflight
    /\ UNCHANGED <<config, kwargs, request, op, pc, sent, response, received, yielded,
                   connection, previous, outcome, toolVars>>

\* The answer to the exchange of a task arrives, or the exchange fails.  The
\* await of post or get returns or raises and the exchange is over; the
\* successful answer to a stream leaves the exchange open for its lines.
TaskRespond(t) ==
    /\ tasks[t].pc = "awaiting"
    /\ \E ok \in BOOLEAN :
        IF tasks[t].op = "search_stream" /\ ok
        THEN /\ tasks' = [tasks EXCEPT ![t].pc = "streaming"]
             /\ inflight' = inflight
        ELSE /\ tasks' = [tasks EXCEPT ![t].pc = "done"]
             /\ inflight' = Without(inflight, t)
    /\ UNCHANGED <<config, kwargs, request, op, pc, sent, response, received, yielded,
                   connection, previous, outcome, toolVars>>

\* A line of the stream of a task arrives.
TaskStreamLine(t) ==
    /\ tasks[t].pc = "streaming"
    /\ tasks[t].lines < MaxLines
    /\ tasks' = [tasks EXCEPT ![t].lines = @ + 1]
    /\ UNCHANGED <<config, kwargs, request, op, pc, sent, response, received, yielded,
                   connection, previous, outcome, toolVars, inflight>>

\* The stream of a task ends, by the close of the server or by a drop: the
\* block of async with self.client.stream is left.
TaskStreamEnd(t) ==
    /\ tasks[t].pc = "streaming"
    /\ tasks' = [tasks EXCEPT ![t].pc = "done"]
    /\ inflight' = Without(inflight, t)
    /\ UNCHANGED <<config, kwargs, request, op, pc, sent, response, received, yielded,
                   connection, previous, outcome, toolVars>>

\* The task is ready for its next call on the instance.
TaskResume(t) ==
    /\ tasks[t].pc = "done"
    /\ tasks' = [tasks EXCEPT ![t] = IdleTask]
    /\ UNCHANGED <<config, kwargs, request, op, pc, sent, response, received, yielded,
                   connection, previous, outcome, toolVars, inflight>>

NextTasks ==
    \E t \in Tasks :
        \/ TaskSend(t)
        \/ TaskRespond(t)
        \/ TaskStreamLine(t)
        \/ TaskStreamEnd(t)
        \/ TaskResume(t)

SpecTasks == Init /\ [][NextTasks]_vars

Next ==
    \/ BuildRequest
    \/ SearchSend
    \/ SearchRespond
    \/ StreamSend
    \/ StreamRespond
    \/ StreamLine
    \/ StreamClose
    \/ StreamDrop
    \/ GetModelsSend
    \/ GetModelsRespond
    \/ HealthCheckSend
    \/ HealthCheckRespond
    \/ Resume

Spec == Init /\ [][Next]_vars

----------------------------------------------------------------------------
(* What the properties below speak of *)

\* The request as the caller built it, before any call resolved it.
CallerRequest == SearchRequest(kwargs)

\* The json of the request the call has issued.
Payload == sent[1].json

\* A line that maps into a StreamMessage.
WellFormed(line) ==
    LET data == JsonLoads(line) IN
    /\ data # JSONDecodeError
    /\ data.t = "object"
    /\ IsStreamMessage(data.members)

\* The messages of the well-formed lines of a sequence of lines, in order.
RECURSIVE MessagesOf(_)
MessagesOf(lines) ==
    IF lines = << >> THEN << >>
    ELSE LET rest == MessagesOf(Tail(lines))
             members == JsonLoads(Head(lines)).members
         IN IF WellFormed(Head(lines))
            THEN <<[type |-> members.type.s, data |-> members.data]>> \o rest
            ELSE rest

\* search_stream got a 2xx response and reads, or has read, its lines.
Streamed ==
    /\ op = "search_stream"
    /\ response.kind = "response"
    /\ IsSuccess(response.status)

----------------------------------------------------------------------------
(* C1 *)

\* C1: on a 2xx response, the messages search_stream has yielded are those of
\* the well-formed lines received, in the order of the lines, and no line
\* ends the stream: the generator raises nothing but the loss of the
\* connection.
C1_StreamingResilience ==
    Streamed =>
        /\ yielded = MessagesOf(received)
        /\ outcome.kind = "raise" => connection = "broken"

----------------------------------------------------------------------------
(* C2 *)

\* C2: the request search and search_stream resolve carries, for each of the
\* chat model, the embedding model and the optimization mode, the value of
\* the caller's request when it has one and the config's default when it has
\* none, which for a model is no model when the config has none.
C2_DefaultPrecedence ==
    op \in {"search", "search_stream"} =>
        /\ request.chatModel =
            IF CallerRequest.chatModel # Absent
            THEN CallerRequest.chatModel ELSE config.default_chat_model
        /\ request.embeddingModel =
            IF CallerRequest.embeddingModel # Absent
            THEN CallerRequest.embeddingModel ELSE config.default_embedding_model
        /\ request.optimizationMode =
            IF CallerRequest.optimizationMode # None
            THEN CallerRequest.optimizationMode ELSE config.default_optimization_mode

\* A call whose caller chose a chat model that the config also has a default
\* for, and left the embedding model to the config.
C2_Witness ==
    /\ op \in {"search", "search_stream"}
    /\ CallerRequest.chatModel # Absent
    /\ config.default_chat_model # Absent
    /\ request.chatModel = CallerRequest.chatModel
    /\ CallerRequest.embeddingModel = Absent
    /\ request.embeddingModel # Absent

----------------------------------------------------------------------------
(* C3 *)

\* C3: when the caller gave no optimization mode (the keyword left out, or
\* None), the request search resolves carries the config's default mode.
C3_ModeDefaultWhenNotSupplied ==
    (/\ op = "search"
     /\ \/ "optimizationMode" \notin DOMAIN kwargs
        \/ kwargs.optimizationMode = None)
    => request.optimizationMode = config.default_optimization_mode

----------------------------------------------------------------------------
(* C4 *)

\* C4 as stated: in the payload of search, a model with a name and no model
\* identifier is sent with model = name, and a model with both is sent with
\* the caller's model identifier, whatever the two values are.
C4_EffectiveName ==
    op = "search" =>
        \A f \in ModelFields :
            (request[f] # Absent /\ request[f].name # None) =>
                Payload[f].model =
                    IF request[f].model = None
                    THEN request[f].name ELSE request[f].model

\* C4 as amended: a model with a name and a model identifier that is unset or
\* empty is sent with model = name; a model with a name and a non-empty model
\* identifier is sent with that identifier.
C4_EffectiveNameNonEmpty ==
    op = "search" =>
        \A f \in ModelFields :
            (request[f] # Absent /\ request[f].name # None) =>
                Payload[f].model =
                    IF request[f].model \in {None, ""}
                    THEN request[f].name ELSE request[f].model

\* A search whose chat model has both identifiers and whose embedding model
\* has the name alone.
C4_Witness ==
    /\ op = "search"
    /\ request.chatModel # Absent
    /\ request.chatModel.name = "gpt-4.1"
    /\ request.chatModel.model = "gpt-4o"
    /\ Payload.chatModel.model = "gpt-4o"
    /\ request.embeddingModel # Absent
    /\ request.embeddingModel.model = None
    /\ Payload.embeddingModel.model = "bge-small"

----------------------------------------------------------------------------
(* C5 *)

\* C5: search_stream sends what search would send for the resolved request,
\* alias step included, with stream set to true.
C5_StreamPayloadNormalized ==
    op = "search_stream" =>
        Payload = SetItem(SearchPayload(request), "stream", TRUE)

----------------------------------------------------------------------------
(* C6 *)

\* A body that is not the JSON object /api/models answers with.
Malformed(body) == JsonLoads(body).t # "object"

\* C6 as stated: health_check raises nothing; it returns false on a network
\* failure, on a non-2xx status and on a malformed body; it returns true only
\* on a 2xx status.
C6_HealthCheckNeverRaises ==
    (op = "health_check" /\ pc = "done") =>
        /\ outcome.kind = "return"
        /\ (\/ response.kind = "RequestError"
            \/ ~IsSuccess(response.status)
            \/ Malformed(response.body)) => outcome.value = FALSE
        /\ outcome.value = TRUE =>
            (response.kind = "response" /\ IsSuccess(response.status))

\* C6 as amended: health_check raises nothing; it returns false on a network
\* failure and on a non-2xx status, whatever the body; it returns true only on
\* a 2xx status.
C6_HealthCheckNeverRaisesStatusOnly ==
    (op = "health_check" /\ pc = "done") =>
        /\ outcome.kind = "return"
        /\ (\/ response.kind = "RequestError"
            \/ ~IsSuccess(response.status)) => outcome.value = FALSE
        /\ outcome.value = TRUE =>
            (response.kind = "response" /\ IsSuccess(response.status))

\* A health_check that no response answered, and that returned false.
C6_Witness ==
    /\ op = "health_check"
    /\ pc = "done"
    /\ response.kind = "RequestError"
    /\ outcome = Return(FALSE)

----------------------------------------------------------------------------
(* C7 *)

\* C7: on a non-2xx answer, search_stream raises a failure that carries the
\* status code and the body of the response, and has yielded nothing.
C7_StreamProtocolFailure ==
    (/\ op = "search_stream"
     /\ response.kind = "response"
     /\ ~IsSuccess(response.status))
    => /\ outcome.kind = "raise"
       /\ outcome.status = response.status
       /\ outcome.body = response.body
       /\ yielded = << >>

----------------------------------------------------------------------------
(* C8 *)

\* C8 as stated: when the connection breaks while the body is read, the
\* sequence ends as it does when the server closes it, with no exception.
C8_DropEndsSilently ==
    (op = "search_stream" /\ connection = "broken") =>
        outcome = StopAsyncIteration

\* C8 as amended: when the connection breaks while the body is read,
\* search_stream raises its network error, after the messages of the lines
\* received before the break; when the server closes the body the sequence
\* ends with no exception.
C8_DropRaisesNetworkError ==
    /\ (op = "search_stream" /\ connection = "broken") =>
        /\ outcome = Raise("Exception", NetworkErrorMessage, 0, None)
        /\ yielded = MessagesOf(received)
    /\ (op = "search_stream" /\ connection = "closed") =>
        outcome = StopAsyncIteration

\* A stream that broke after it had yielded a message.
C8_Witness ==
    /\ op = "search_stream"
    /\ connection = "broken"
    /\ Len(yielded) >= 1
    /\ outcome.kind = "raise"

----------------------------------------------------------------------------
(* C9 *)

\* C9: on a non-2xx answer, search raises a failure that carries the status
\* code and the raw body of the response.
C9_SearchProtocolFailure ==
    (/\ op = "search"
     /\ pc = "done"
     /\ response.kind = "response"
     /\ ~IsSuccess(response.status))
    => outcome = Raise("Exception", ApiErrorMessage, response.status, response.body)

\* Scenario C: the remote answers 500 with the body "internal error".
C9_Witness ==
    /\ op = "search"
    /\ pc = "done"
    /\ response = Response(500, "internal error", TRUE)
    /\ outcome.kind = "raise"
    /\ outcome.status = 500
    /\ outcome.body = "internal error"

----------------------------------------------------------------------------
(* C10 *)

\* A body that maps into a SearchResponse.
ParsesAsSearchResponse(body) ==
    LET data == JsonLoads(body) IN
    data.t = "object" /\ IsSearchResponse(data.members)

\* C10: every failure of search (no response, a non-2xx status, a 2xx body
\* that does not map into a SearchResponse) ends the call with the one
\* generic failure, an Exception with a message.
C10_SingleGenericFailure ==
    (/\ op = "search"
     /\ pc = "done"
     /\ \/ response.kind = "RequestError"
        \/ ~IsSuccess(response.status)
        \/ ~ParsesAsSearchResponse(response.body))
    => /\ outcome.kind = "raise"
       /\ outcome.exc = "Exception"
       /\ outcome.msg \in {ApiErrorMessage, NetworkErrorMessage, InvalidJsonMessage}

----------------------------------------------------------------------------
(* C11 *)

\* C11: on no response, on a non-2xx status and on a body that is not JSON,
\* get_models ends with the failure search ends with on the same answer.
C11_GetModelsFailsAsSearch ==
    (/\ op = "get_models"
     /\ pc = "done"
     /\ \/ response.kind = "RequestError"
        \/ ~IsSuccess(response.status)
        \/ JsonLoads(response.body) = JSONDecodeError)
    => outcome = SearchResult(response)

----------------------------------------------------------------------------
(* C12 *)

\* C12: no tag ends the stream.  While the connection is open the generator
\* goes on, it ends when the connection closes or breaks and not before, and
\* every well-formed line is yielded, those after a "done" or "error"
\* message included.
C12_TagsNotTerminal ==
    Streamed =>
        /\ pc = "done" <=> connection \in {"closed", "broken"}
        /\ yielded = MessagesOf(received)

----------------------------------------------------------------------------
(* C13 *)

\* C13: the alias step of search, applied to the payload search has built,
\* leaves it as it is.
C13_AliasIdempotent ==
    op = "search" => AliasPayload(Payload) = Payload

\* A search whose payload got its model from the name.
C13_Witness ==
    /\ op = "search"
    /\ "chatModel" \in DOMAIN Payload
    /\ request.chatModel.model = None
    /\ request.chatModel.name # None
    /\ Payload.chatModel.model = request.chatModel.name

----------------------------------------------------------------------------
(* C18 *)

\* C18: search issues one request, a POST to /api/search, and no other,
\* whatever it is answered; on no response, on a non-2xx status and on a body
\* that does not map into a SearchResponse the call ends, with an exception.
C18_SearchPostsOnce ==
    op = "search" =>
        /\ Len(sent) = 1
        /\ sent[1].method = "POST"
        /\ sent[1].url = "/api/search"
        /\ response # NoResponse =>
            /\ pc = "done"
            /\ (\/ response.kind = "RequestError"
                \/ ~IsSuccess(response.status)
                \/ ~ParsesAsSearchResponse(response.body)) => outcome.kind = "raise"

\* A search that no response answered and that has ended.
C18_Witness ==
    /\ op = "search"
    /\ pc = "done"
    /\ response.kind = "RequestError"
    /\ outcome.kind = "raise"
    /\ Len(sent) = 1

----------------------------------------------------------------------------
(* C20 *)

\* C20: health_check returns true when a response came with status 200 and
\* false in every other case, whatever the body is.
C20_HealthyIff200 ==
    (op = "health_check" /\ pc = "done") =>
        outcome = Return(response.kind = "response" /\ response.status = 200)

\* A health_check answered 204, which returned false.
C20_Witness ==
    /\ op = "health_check"
    /\ pc = "done"
    /\ response.kind = "response"
    /\ response.status = 204
    /\ outcome = Return(FALSE)

----------------------------------------------------------------------------
(* C17 *)

----------------------------------------------------------------------------
(* C19 *)

\* The fields of a SearchRequest that the head of search may write.
ResolvedFields == ModelFields \cup {"optimizationMode"}

\* The config's default for a resolved field.
DefaultOf(f) ==
    CASE f = "chatModel" -> config.default_chat_model
      [] f = "embeddingModel" -> config.default_embedding_model
      [] f = "optimizationMode" -> config.default_optimization_mode

\* C19: when search or search_stream has ended, with a result or with an
\* exception, the caller's request object holds the caller's value in every
\* field that held one and the config's default in every field that held
\* None and has a default; a later search or search_stream on the same object
\* resolves to the request the earlier one left.
C19_ResolvesInPlace ==
    /\ (op \in {"search", "search_stream"} /\ pc = "done") =>
          \A f \in DOMAIN request :
              IF f \in ResolvedFields /\ IsNone(CallerRequest, f)
              THEN request[f] = DefaultOf(f)
              ELSE request[f] = CallerRequest[f]
    /\ (op \in {"search", "search_stream"} /\ previous # Absent) =>
          request = previous

\* A second search on a request, ended with an exception, whose chat model
\* the first call took from the config.
C19_Witness ==
    /\ op = "search"
    /\ pc = "done"
    /\ outcome.kind = "raise"
    /\ previous # Absent
    /\ CallerRequest.chatModel = Absent
    /\ config.default_chat_model # Absent
    /\ request.chatModel = config.default_chat_model


----------------------------------------------------------------------------
(* The tools: failures and the release of the client *)

\* The tool has left its async with block.
ToolLeft == toolpc \in {"returned", "raised"}

\* SearchRequest raised inside the try of a search tool.
ConstructionFailed ==
    /\ tool.name \in SearchTools
    /\ ~SearchRequestValidates(ToolKwargs(tool.name, tool.args, config))

\* The client call of the tool ended with a failure: an exception other than
\* the cancellation of the task.
ClientCallFailed ==
    /\ outcome.kind = "raise"
    /\ outcome.exc # "CancelledError"

\* C14: every tool, when its client call or the construction of its request
\* fails, returns a payload with an "error" entry and lets no exception out;
\* the only exception that ever leaves a tool is the cancellation of its task.
C14_ToolsReturnErrorPayload ==
    ToolLeft =>
        /\ (ConstructionFailed \/ ClientCallFailed) =>
            /\ toolpc = "returned"
            /\ tool_result.kind = "return"
            /\ "error" \in DOMAIN tool_result.value
        /\ toolpc = "raised" => outcome.exc = "CancelledError"

\* A tool has returned the error payload for a failure its client raised
\* without wrapping it: the undecodable body of get_models.
C14_Witness ==
    /\ toolpc = "returned"
    /\ tool.name = "get_available_models"
    /\ outcome.kind = "raise"
    /\ outcome.exc = "JSONDecodeError"
    /\ "error" \in DOMAIN tool_result.value

\* C15: once a tool has left its async with block, by a result, by an error
\* payload or by the cancellation of its task, the AsyncClient of the client
\* it created is closed; it is open while the block runs.
C15_ClosedOnEveryExit ==
    /\ ToolLeft => closed
    /\ toolpc = "entered" => ~closed

\* A tool was cancelled while its client awaited the answer, and the client
\* was closed on the way out.
C15_Witness ==
    /\ toolpc = "raised"
    /\ tool_result.exc = "CancelledError"
    /\ closed


----------------------------------------------------------------------------
(* Concurrent tasks on one instance *)

\* The exchanges of task t in flight.
InFlightOf(t) == SelectSeq(inflight, LAMBDA e : e.task = t)

\* C16 as stated: the instance never has more than one exchange in flight,
\* however the calls of concurrent tasks interleave.
C16_OneExchangeAtATime == Len(inflight) <= 1

\* C16: a call has at most one exchange in flight, and has one exactly while
\* it awaits its answer or reads its stream; the instance has at most one
\* exchange in flight for each task that is inside a call.
C16_OneExchangePerCall ==
    /\ \A t \in Tasks :
        Len(InFlightOf(t)) = IF tasks[t].pc \in {"awaiting", "streaming"} THEN 1 ELSE 0
    /\ Len(inflight) <= NumTasks

\* Two tasks are inside calls of the same instance, one reading a stream and
\* one awaiting its answer: two exchanges are in flight.
C16_Witness ==
    /\ Len(inflight) = 2
    /\ \E t, u \in Tasks :
        /\ t # u
        /\ tasks[t].pc = "streaming"
        /\ tasks[u].pc = "awaiting"


----------------------------------------------------------------------------
(* The model overrides of the search tools *)

\* The caller supplied the provider and the model identifier, both non-empty.
BothSupplied(provider, model) == ~Falsy(provider) /\ ~Falsy(model)

\* The caller supplied exactly one of the two.
ExactlyOneSupplied(provider, model) == Falsy(provider) # Falsy(model)

\* The selection the request of the running search tool is to carry in field
\* f: the override when both of its arguments were supplied, else the default
\* of the config, Absent when the config has none.
ExpectedSelection(f) ==
    IF f = "chatModel"
    THEN IF BothSupplied(tool.args.chat_provider, tool.args.chat_model)
         THEN ChatModel(tool.args.chat_provider, None, tool.args.chat_model)
         ELSE config.default_chat_model
    ELSE IF BothSupplied(tool.args.embedding_provider, tool.args.embedding_model)
         THEN EmbeddingModel(tool.args.embedding_provider, None, tool.args.embedding_model)
         ELSE config.default_embedding_model

\* The fields of model selections the running tool has arguments for.
OverridableFields ==
    IF tool.name \in EmbeddingTools THEN {"chatModel", "embeddingModel"} ELSE {"chatModel"}

\* C21: in every search tool the request carries the caller's override only
\* when the provider and the model were both supplied and non-empty; with one
\* of the two alone, or neither, it carries the default of the config, or
\* no selection when the config has none, and so does the payload posted;
\* a partial override is no error: the request is built whenever the
\* optimization mode is a valid one.
C21_OverrideNeedsBoth ==
    tool.name \in SearchTools =>
        /\ request # Absent =>
            \A f \in OverridableFields : request[f] = ExpectedSelection(f)
        /\ (op = "search" /\ sent # << >>) =>
            \A f \in OverridableFields :
                IF ExpectedSelection(f) = Absent
                THEN f \notin DOMAIN Payload
                ELSE Payload[f] = AliasModel(DumpModel(ExpectedSelection(f)))
        /\ (~Falsy(tool.args.optimization_mode) =>
                tool.args.optimization_mode \in OptimizationModes)
            => /\ request # Absent
               /\ tool_result.kind = "raise" => tool_result.exc = "CancelledError"

\* search_youtube was called with a provider and an empty model on a config
\* without default chat model: the request was posted with no chat model.
C21_Witness ==
    /\ tool.name = "search_youtube"
    /\ ExactlyOneSupplied(tool.args.chat_provider, tool.args.chat_model)
    /\ tool.args.chat_provider = "anthropic"
    /\ config.default_chat_model = Absent
    /\ op = "search"
    /\ sent # << >>
    /\ "chatModel" \notin DOMAIN Payload

====
